---- MODULE Spec2Model ----
(***************************************************************************)
(* V-Trace backend core: the chunk hasher (generateChunkHashes.js) and the *)
(* Merkle root builder (merkle.js), as one state machine.                  *)
(*                                                                         *)
(* Values.  A byte buffer is a sequence of tokens (strings).  A file byte  *)
(* is one of the tokens of Byte.  SHA-256 is modelled as a collision-free  *)
(* symbolic function: the 32 raw bytes of the digest of a buffer b are the *)
(* buffer <<"H(">> \o b \o <<")">>, so two digests are equal exactly when  *)
(* the hashed buffers are equal.  A JavaScript value is a record           *)
(*   [type, len, hex, upper, bytes]                                        *)
(* type: typeof the value; len: its length in characters; hex: all its     *)
(* characters are hexadecimal digits; upper: it holds an uppercase letter; *)
(* bytes: the buffer Buffer.from(value, 'hex') decodes it to.              *)
(***************************************************************************)
EXTENDS Integers, Sequences, FiniteSets, TLC

\* ---------------------------------------------------------------- bounds
MaxLen == 4
MaxChunk == 3
MaxLeaves == 4

\* Two concurrent invocations: the length of each source and the chunk sizes.
PairMaxLen == 2
PairMaxChunk == 2

\* chunkHasher.js: the length of the file and the largest chunkSize passed.
AltMaxLen == 2
AltMaxChunk == 2

\* The two concurrent invocations the model provides for.
Calls == {1, 2}

\* File bytes.
Byte == {"00", "ff"}

\* ------------------------------------------------------- program constants
\* /^[0-9a-f]{64}$/ : the length of a digest's hex form.
DigestHexLen == 64

DEFAULT_CHUNK_SIZE == 1024 * 1024

\* chunkHasher.js line 10
ALT_DEFAULT_CHUNK_SIZE == 4 * 1024 * 1024

\* ------------------------------------------------------------------ values
Min(a, b) == IF a < b THEN a ELSE b

Max(a, b) == IF a > b THEN a ELSE b

\* All sequences over S of length 0..n.
SeqUpTo(S, n) == UNION {[1..k -> S] : k \in 0..n}

\* The hex string of length 2 * (bytes encoded), lowercase or with uppercase.
HexString(bytes, n, up) ==
  [type |-> "string", len |-> n, hex |-> TRUE, upper |-> up, bytes |-> bytes]

\* The value `undefined` (no root, no digest).
Undefined == [type |-> "undefined", len |-> 0, hex |-> FALSE, upper |-> FALSE, bytes |-> <<>>]

\* createHash('sha256').update(b).digest(): the 32 raw bytes, symbolic.
SHA256(b) == <<"H(">> \o b \o <<")">>

\* hash.digest('hex'): 64 lowercase hex characters.
DigestHex(b) == HexString(SHA256(b), DigestHexLen, FALSE)

\* String.prototype.toLowerCase
toLowerCase(h) == [h EXCEPT !.upper = FALSE]

\* Buffer.from(h, 'hex'): case-insensitive, empty when h holds no hex digits.
BufferFromHex(h) == IF h.type = "string" /\ h.hex THEN h.bytes ELSE <<>>

\* Buffer.prototype.slice(start, end): end clamped to the buffer's length.
JsSlice(buf, start, end) == SubSeq(buf, Max(start, 0) + 1, Min(Max(end, 0), Len(buf)))

\* ------------------------------------------------------------ file paths
\* A string as its sequence of characters; trim() strips blanks at both ends.
RECURSIVE TrimLeft(_)
TrimLeft(s) == IF s # <<>> /\ Head(s) = " " THEN TrimLeft(Tail(s)) ELSE s

RECURSIVE TrimRight(_)
TrimRight(s) ==
  IF s # <<>> /\ s[Len(s)] = " " THEN TrimRight(SubSeq(s, 1, Len(s) - 1)) ELSE s

Trim(s) == TrimRight(TrimLeft(s))

\* filePath arguments: [type, text].
FilePathArgs ==
  { [type |-> "string", text |-> <<"/", "x">>],
    [type |-> "string", text |-> <<" ", " ", " ">>],
    [type |-> "string", text |-> <<>>],
    [type |-> "number", text |-> <<"4", "2">>] }

\* chunkSize arguments: an integer, a non-integer number (1.5), or undefined.
ChunkSizeArgs ==
  { [kind |-> "int", val |-> v] : v \in (-1)..MaxChunk }
  \cup { [kind |-> "float", val |-> 1], [kind |-> "undefined", val |-> 0] }

\* line 29: the default parameter value replaces an undefined argument.
EffectiveChunkSize(arg) ==
  IF arg.kind = "undefined" THEN [kind |-> "int", val |-> DEFAULT_CHUNK_SIZE] ELSE arg

\* line 31
FilePathInvalid(fp) == fp.type # "string" \/ Trim(fp.text) = <<>>

\* Mutant of ChunkSizeInvalid: `chunkSize < 0`, so that 0 passes.
ChunkSizeInvalidAllowsZero(cs) == ~(cs.kind = "int") \/ cs.val < 0

\* line 34
ChunkSizeInvalid(cs) == ~(cs.kind = "int") \/ cs.val <= 0

\* ------------------------------------------------------------------ state
VARIABLES
  gen,          \* per invocation of generateChunkHashes: its locals, stream and promise
  mpc,          \* buildMerkleRoot: "idle", "loop", "returned", "thrown"
  hashes,       \* buildMerkleRoot's argument, the caller's array: [isArray, items]
  hashesBefore, \* the caller's array as it was when the call was made
  currentLevel, \* merkle.js line 114
  pairCalls,    \* number of hashPair invocations in the current call
  root,         \* the value returned (Undefined while there is none)
  thrown,       \* the error thrown: "", "TypeError", "RangeError"
  fromChunks,   \* the call's argument is the array generateChunkHashes resolved with
  run,          \* 1, or 2 when the same input is processed a second time
  firstLeaves,  \* run 1's leaf sequence
  firstRoot,    \* run 1's root
  firstThrown,  \* run 1's error
  firstSingle,  \* run 1 received its bytes in a single 'data' event
  alt           \* per invocation of chunkHasher.js's generateChunkHashes

vars ==
  <<gen, mpc, hashes, hashesBefore, currentLevel, pairCalls, root, thrown,
    fromChunks, run, firstLeaves, firstRoot, firstThrown, firstSingle, alt>>

merkleVars ==
  <<mpc, hashes, hashesBefore, currentLevel, pairCalls, root, thrown, fromChunks>>

runVars == <<run, firstLeaves, firstRoot, firstThrown, firstSingle>>

\* -------------------------------------------------- generateChunkHashes.js
\* createHash('sha256'): a running hash, the bytes fed so far.
FreshHash == [fed |-> <<>>, finalized |-> FALSE]

\* Before the call.
IdleGen ==
  [ pc |-> "idle",
    filePath |-> [type |-> "string", text |-> <<>>],
    chunkSizeArg |-> [kind |-> "undefined", val |-> 0],
    chunkSize |-> 0,
    src |-> <<>>,
    opened |-> FALSE,
    pos |-> 0,
    events |-> 0,
    chunk |-> <<>>,
    offset |-> 0,
    remaining |-> 0,
    slice |-> <<>>,
    hashes |-> <<>>,
    currentHash |-> FreshHash,
    bytesInCurrentChunk |-> 0,
    hashMisuse |-> FALSE,
    state |-> "none",
    value |-> <<>>,
    reason |-> "",
    settles |-> 0,
    emitted |-> "",
    interleaved |-> FALSE ]

\* Errors the stream can emit.
StreamErrors == {"ENOENT", "EIO"}

\* JavaScript runs a callback to completion: no callback of any invocation starts
\* while a 'data' handler is inside its loop.
HandlerRunning == \E c \in Calls : gen[c].pc \in {"slice", "boundary"}

\* lines 30-36: the error the argument validation throws, "" when it passes.
ValidationError(fp, cs) ==
  IF FilePathInvalid(fp) THEN "TypeError"
  ELSE IF ChunkSizeInvalid(cs) THEN "RangeError"
  ELSE ""

\* lines 29-47: the invocation right after the call, on a file of the given content.
\* An async function's throw rejects the promise it returns.
Started(fp, csArg, content) ==
  LET cs == EffectiveChunkSize(csArg)
      err == ValidationError(fp, cs)
      g0 == [IdleGen EXCEPT !.filePath = fp, !.chunkSizeArg = csArg, !.src = content]
  IN IF err # ""
     THEN [g0 EXCEPT !.pc = "closed", !.state = "rejected", !.reason = err,
                     !.settles = 1]
     ELSE [g0 EXCEPT !.pc = "open", !.chunkSize = cs.val, !.opened = TRUE,
                     !.state = "pending"]

\* The call, with any filePath, any chunkSize and a file of any content.
Generate(c) ==
  /\ gen[c].pc = "idle"
  /\ mpc = "idle"
  /\ ~HandlerRunning
  /\ \E fp \in FilePathArgs, csArg \in ChunkSizeArgs, content \in SeqUpTo(Byte, MaxLen) :
       gen' = [gen EXCEPT ![c] = Started(fp, csArg, content)]
  /\ UNCHANGED <<merkleVars, runVars, alt>>

\* The call on a readable file with a valid chunkSize, as one of two invocations
\* that run concurrently.
GenerateConcurrently(c) ==
  /\ gen[c].pc = "idle"
  /\ mpc = "idle"
  /\ ~HandlerRunning
  /\ \E cs \in 1..PairMaxChunk, content \in SeqUpTo(Byte, PairMaxLen) :
       gen' = [gen EXCEPT ![c] =
         Started([type |-> "string", text |-> <<"/", "x">>],
                 [kind |-> "int", val |-> cs], content)]
  /\ UNCHANGED <<merkleVars, runVars, alt>>

\* Mutant of Remaining: the bytes already in the current chunk are forgotten.
RemainingIgnoresPartial(chunkSize, bytesInCurrentChunk) == chunkSize

\* line 56
Remaining(chunkSize, bytesInCurrentChunk) == chunkSize - bytesInCurrentChunk

\* Mutant of SliceOf: `chunk.slice(offset)`, the whole rest of the block.
SliceOfWholeRest(chunk, offset, remaining) == JsSlice(chunk, offset, Len(chunk))

\* line 57
SliceOf(chunk, offset, remaining) == JsSlice(chunk, offset, offset + remaining)

\* line 59: hash.update throws once the hash is finalized.
HashUpdate(h, slice) == IF h.finalized THEN h ELSE [h EXCEPT !.fed = @ \o slice]

\* Mutant of AtBoundary: `bytesInCurrentChunk > chunkSize`, a full chunk is never
\* closed.
AtBoundaryStrictlyAbove(bytesInCurrentChunk, chunkSize) == bytesInCurrentChunk > chunkSize

\* line 63
AtBoundary(bytesInCurrentChunk, chunkSize) == bytesInCurrentChunk = chunkSize

\* Mutant of HasLeftover: `bytesInCurrentChunk >= 0`, a flush on every 'end'.
HasLeftoverOrEmpty(bytesInCurrentChunk) == bytesInCurrentChunk >= 0

\* line 73
HasLeftover(bytesInCurrentChunk) == bytesInCurrentChunk > 0

\* lines 49-53: a 'data' event delivers the next n >= 1 bytes of the source, fewer
\* or more than chunkSize.
Data(c) ==
  /\ gen[c].pc = "open"
  /\ ~HandlerRunning
  /\ \E n \in 1..(Len(gen[c].src) - gen[c].pos) :
       gen' = [gen EXCEPT ![c] =
         [@ EXCEPT !.pc = "slice",
                   !.chunk = SubSeq(gen[c].src, gen[c].pos + 1, gen[c].pos + n),
                   !.pos = @ + n,
                   !.events = @ + 1,
                   !.offset = 0,
                   !.interleaved = @ \/ \E d \in Calls \ {c} :
                                          /\ gen[d].pc = "open"
                                          /\ gen[d].events >= 1
                                          /\ gen[d].pos < Len(gen[d].src)]]
  /\ UNCHANGED <<merkleVars, runVars, alt>>

\* Mutant of LoopSlice: `bytesInCurrentChunk += remaining`, the room left counted
\* in place of the bytes taken.
LoopSliceCountsRemaining(c) ==
  /\ gen[c].pc = "slice"
  /\ gen[c].offset < Len(gen[c].chunk)
  /\ LET g == gen[c]
         remaining == Remaining(g.chunkSize, g.bytesInCurrentChunk)
         slice == SliceOf(g.chunk, g.offset, remaining)
     IN gen' = [gen EXCEPT ![c] =
          [g EXCEPT !.pc = "boundary",
                    !.remaining = remaining,
                    !.slice = slice,
                    !.hashMisuse = @ \/ g.currentHash.finalized,
                    !.currentHash = HashUpdate(g.currentHash, slice),
                    !.bytesInCurrentChunk = @ + remaining,
                    !.offset = @ + Len(slice)]]
  /\ UNCHANGED <<merkleVars, runVars, alt>>

\* lines 55-61: one iteration of the loop, up to the boundary test.
LoopSlice(c) ==
  /\ gen[c].pc = "slice"
  /\ gen[c].offset < Len(gen[c].chunk)
  /\ LET g == gen[c]
         remaining == Remaining(g.chunkSize, g.bytesInCurrentChunk)
         slice == SliceOf(g.chunk, g.offset, remaining)
     IN gen' = [gen EXCEPT ![c] =
          [g EXCEPT !.pc = "boundary",
                    !.remaining = remaining,
                    !.slice = slice,
                    !.hashMisuse = @ \/ g.currentHash.finalized,
                    !.currentHash = HashUpdate(g.currentHash, slice),
                    !.bytesInCurrentChunk = @ + Len(slice),
                    !.offset = @ + Len(slice)]]
  /\ UNCHANGED <<merkleVars, runVars, alt>>

\* Mutant of LoopBoundary: `hashes` declared at module level, one array shared by
\* every invocation.
LoopBoundaryShared(c) ==
  /\ gen[c].pc = "boundary"
  /\ LET g == gen[c]
         next == IF g.offset < Len(g.chunk) THEN "slice" ELSE "open"
         full == AtBoundary(g.bytesInCurrentChunk, g.chunkSize)
         digest == DigestHex(g.currentHash.fed)
     IN gen' = [d \in Calls |->
          IF d = c
          THEN IF full
               THEN [g EXCEPT !.pc = next,
                              !.hashes = Append(@, digest),
                              !.currentHash = FreshHash,
                              !.bytesInCurrentChunk = 0]
               ELSE [g EXCEPT !.pc = next]
          ELSE IF full /\ gen[d].pc # "idle"
               THEN [gen[d] EXCEPT !.hashes = Append(@, digest)]
               ELSE gen[d]]
  /\ UNCHANGED <<merkleVars, runVars, alt>>

\* Mutant of LoopBoundary: line 65 missing, the finalized hash stays the
\* running hash.
LoopBoundaryKeepsHash(c) ==
  /\ gen[c].pc = "boundary"
  /\ LET g == gen[c]
         next == IF g.offset < Len(g.chunk) THEN "slice" ELSE "open"
     IN gen' = [gen EXCEPT ![c] =
          IF AtBoundary(g.bytesInCurrentChunk, g.chunkSize)
          THEN [g EXCEPT !.pc = next,
                         !.hashMisuse = @ \/ g.currentHash.finalized,
                         !.hashes = Append(@, DigestHex(g.currentHash.fed)),
                         !.currentHash = [@ EXCEPT !.finalized = TRUE],
                         !.bytesInCurrentChunk = 0]
          ELSE [g EXCEPT !.pc = next]]
  /\ UNCHANGED <<merkleVars, runVars, alt>>

\* lines 63-68: the boundary test, then the loop test; the handler returns when
\* the block is consumed.
LoopBoundary(c) ==
  /\ gen[c].pc = "boundary"
  /\ LET g == gen[c]
         next == IF g.offset < Len(g.chunk) THEN "slice" ELSE "open"
     IN gen' = [gen EXCEPT ![c] =
          IF AtBoundary(g.bytesInCurrentChunk, g.chunkSize)
          THEN [g EXCEPT !.pc = next,
                         !.hashMisuse = @ \/ g.currentHash.finalized,
                         !.hashes = Append(@, DigestHex(g.currentHash.fed)),
                         !.currentHash = FreshHash,
                         !.bytesInCurrentChunk = 0]
          ELSE [g EXCEPT !.pc = next]]
  /\ UNCHANGED <<merkleVars, runVars, alt>>

\* lines 71-77: 'end', once every byte is delivered.
End(c) ==
  /\ gen[c].pc = "open"
  /\ ~HandlerRunning
  /\ gen[c].pos = Len(gen[c].src)
  /\ LET g == gen[c]
         flushed == IF HasLeftover(g.bytesInCurrentChunk)
                    THEN [g EXCEPT !.hashMisuse = @ \/ g.currentHash.finalized,
                                   !.hashes = Append(@, DigestHex(g.currentHash.fed)),
                                   !.currentHash = [@ EXCEPT !.finalized = TRUE]]
                    ELSE g
     IN gen' = [gen EXCEPT ![c] =
          [flushed EXCEPT !.pc = "closed",
                          !.state = "fulfilled",
                          !.value = flushed.hashes,
                          !.settles = @ + 1]]
  /\ UNCHANGED <<merkleVars, runVars, alt>>

\* Mutant of RejectReason: `reject(new Error('read failed'))`, the error replaced.
RejectReasonGeneric(err) == "Error"

\* line 47: reject(err)
RejectReason(err) == err

\* line 47: 'error', on open or after any number of 'data' events. `emitted` keeps
\* the error the stream emitted.
StreamError(c) ==
  /\ gen[c].pc = "open"
  /\ ~HandlerRunning
  /\ \E e \in StreamErrors :
       gen' = [gen EXCEPT ![c] =
         [@ EXCEPT !.pc = "closed", !.state = "rejected", !.reason = RejectReason(e),
                   !.settles = @ + 1, !.emitted = e]]
  /\ UNCHANGED <<merkleVars, runVars, alt>>

\* --------------------------------------------------------------- merkle.js
\* lines 20-22: typeof hash === 'string' && /^[0-9a-f]{64}$/.test(hash)
isValidSHA256Hex(hash) ==
  hash.type = "string" /\ hash.hex /\ ~hash.upper /\ hash.len = DigestHexLen

\* Mutant of hashPair: the right child is hashed first.
hashPairSwapped(leftHex, rightHex) ==
  DigestHex(BufferFromHex(rightHex) \o BufferFromHex(leftHex))

\* lines 32-39: SHA-256 of the two decoded buffers, concatenated.
hashPair(leftHex, rightHex) ==
  DigestHex(BufferFromHex(leftHex) \o BufferFromHex(rightHex))

\* Mutant of Nodes: the first node is duplicated instead of the last.
NodesDupFirst(level) ==
  IF Len(level) % 2 = 0 THEN level ELSE Append(level, level[1])

\* line 50: the last node is duplicated when the count is odd.
Nodes(level) ==
  IF Len(level) % 2 = 0 THEN level ELSE Append(level, level[Len(level)])

\* Mutant of buildNextLevel: `i += 1`, overlapping pairs.
buildNextLevelSliding(level) ==
  LET nodes == Nodes(level)
  IN [k \in 1..(Len(nodes) - 1) |-> hashPair(nodes[k], nodes[k + 1])]

\* lines 48-57
buildNextLevel(level) ==
  LET nodes == Nodes(level)
  IN [k \in 1..(Len(nodes) \div 2) |-> hashPair(nodes[2 * k - 1], nodes[2 * k])]

\* line 54: the calls of hashPair one buildNextLevel makes.
PairCallsOf(level) == Len(Nodes(level)) \div 2

\* Mutant of FindInvalidIndex: the last element is not looked at.
FindInvalidIndexSkipsLast(items) ==
  LET bad == {i \in 1..(Len(items) - 1) : ~isValidSHA256Hex(items[i])}
  IN IF bad = {} THEN -1 ELSE (CHOOSE i \in bad : \A j \in bad : i <= j) - 1

\* line 101: hashes.findIndex((h) => !isValidSHA256Hex(h)), 0-based, -1 if none.
FindInvalidIndex(items) ==
  LET bad == {i \in 1..Len(items) : ~isValidSHA256Hex(items[i])}
  IN IF bad = {} THEN -1 ELSE (CHOOSE i \in bad : \A j \in bad : i <= j) - 1

\* line 114: hashes.map((h) => h.toLowerCase()), a new array.
MapToLowerCase(items) == [i \in 1..Len(items) |-> toLowerCase(items[i])]

\* Mutant of SingleLeafRoot: the single leaf is treated as an odd level.
SingleLeafHashed(items) == hashPair(items[1], items[1])

\* line 110
SingleLeafRoot(items) == items[1]

\* Mutant of LoopContinues: `while (currentLevel.length > 2)`.
LoopContinuesAboveTwo(level) == Len(level) > 2

\* line 116
LoopContinues(level) == Len(level) > 1

\* lines 116-120: the reduction of a level to the root.
RECURSIVE ReduceToRoot(_)
ReduceToRoot(level) ==
  IF LoopContinues(level) THEN ReduceToRoot(buildNextLevel(level)) ELSE level[1]

\* lines 108-120: the value buildMerkleRoot returns for a valid array.
MerkleRootOf(items) ==
  IF Len(items) = 1 THEN SingleLeafRoot(items) ELSE ReduceToRoot(MapToLowerCase(items))

\* Leaf values a caller can pass: 'a'.repeat(64), 'b'.repeat(64), 'c'.repeat(64),
\* 'A'.repeat(64), 'ZZZZ', 'abc123' and the number 42.
LowerLeaf(x) == HexString(<<x>>, DigestHexLen, FALSE)

UpperLeaf(x) == HexString(<<x>>, DigestHexLen, TRUE)

LeafValues ==
  { LowerLeaf("aa"), LowerLeaf("bb"), LowerLeaf("cc"), UpperLeaf("aa"),
    [type |-> "string", len |-> 4, hex |-> FALSE, upper |-> TRUE, bytes |-> <<>>],
    HexString(<<"ab", "c1", "23">>, 6, FALSE),
    [type |-> "number", len |-> 0, hex |-> FALSE, upper |-> FALSE, bytes |-> <<>>] }

Array(items) == [isArray |-> TRUE, items |-> items]

\* A value that is not an array ('not an array').
NotAnArray == [isArray |-> FALSE, items |-> <<>>]

MerkleArgs == {Array(items) : items \in SeqUpTo(LeafValues, MaxLeaves)} \cup {NotAnArray}

\* lines 91-114: the call, up to the loop. The caller's array is only read.
EnterBuildMerkleRoot(arg) ==
  /\ hashes' = arg
  /\ hashesBefore' = arg
  /\ pairCalls' = 0
  /\ IF ~arg.isArray
     THEN mpc' = "thrown" /\ thrown' = "TypeError" /\ root' = Undefined
          /\ currentLevel' = <<>>
     ELSE IF Len(arg.items) = 0
     THEN mpc' = "thrown" /\ thrown' = "RangeError" /\ root' = Undefined
          /\ currentLevel' = <<>>
     ELSE IF FindInvalidIndex(arg.items) # -1
     THEN mpc' = "thrown" /\ thrown' = "TypeError" /\ root' = Undefined
          /\ currentLevel' = <<>>
     ELSE IF Len(arg.items) = 1
     THEN mpc' = "returned" /\ thrown' = "" /\ root' = SingleLeafRoot(arg.items)
          /\ currentLevel' = <<>>
     ELSE mpc' = "loop" /\ thrown' = "" /\ root' = Undefined
          /\ currentLevel' = MapToLowerCase(arg.items)

\* buildMerkleRoot called on an array of the caller's own making.
BuildMerkleRoot ==
  /\ mpc = "idle"
  /\ run = 1
  /\ \A c \in Calls : gen[c].pc = "idle"
  /\ \E arg \in MerkleArgs : EnterBuildMerkleRoot(arg)
  /\ fromChunks' = FALSE
  /\ UNCHANGED <<gen, alt, runVars>>

\* The pipeline: buildMerkleRoot called on the array generateChunkHashes resolved with.
BuildFromChunks ==
  /\ mpc = "idle"
  /\ gen[1].state = "fulfilled"
  /\ gen[2].pc = "idle"
  /\ EnterBuildMerkleRoot(Array(gen[1].value))
  /\ fromChunks' = TRUE
  /\ UNCHANGED <<gen, alt, runVars>>

\* Mutant of BuildNextLevelStep: the reduction works in place on the caller's array
\* (`currentLevel = hashes`, the parent level written back into it).
BuildNextLevelInPlace ==
  /\ mpc = "loop"
  /\ LoopContinues(currentLevel)
  /\ currentLevel' = buildNextLevel(currentLevel)
  /\ hashes' = [hashes EXCEPT !.items = buildNextLevel(currentLevel)]
  /\ pairCalls' = pairCalls + PairCallsOf(currentLevel)
  /\ UNCHANGED <<gen, alt, mpc, hashesBefore, root, thrown, fromChunks, runVars>>

\* lines 116-118: one iteration of the reduction loop.
BuildNextLevelStep ==
  /\ mpc = "loop"
  /\ LoopContinues(currentLevel)
  /\ currentLevel' = buildNextLevel(currentLevel)
  /\ pairCalls' = pairCalls + PairCallsOf(currentLevel)
  /\ UNCHANGED <<gen, alt, mpc, hashes, hashesBefore, root, thrown, fromChunks, runVars>>

\* line 120
ReturnRoot ==
  /\ mpc = "loop"
  /\ ~LoopContinues(currentLevel)
  /\ mpc' = "returned"
  /\ root' = currentLevel[1]
  /\ UNCHANGED <<gen, alt, hashes, hashesBefore, currentLevel, pairCalls, thrown, fromChunks,
                 runVars>>

\* --------------------------------------------------------- the second run
\* A second call of buildMerkleRoot on the same array (the array as it now is).
BuildAgain ==
  /\ mpc \in {"returned", "thrown"}
  /\ ~fromChunks
  /\ run = 1
  /\ run' = 2
  /\ firstLeaves' = hashesBefore.items
  /\ firstRoot' = root
  /\ firstThrown' = thrown
  /\ firstSingle' = FALSE
  /\ EnterBuildMerkleRoot(hashes)
  /\ UNCHANGED <<gen, alt, fromChunks>>

\* A second, independent run of the pipeline over the same file with the same
\* chunkSize: the stream is opened anew and may deliver the bytes differently.
RunAgain ==
  /\ mpc \in {"returned", "thrown"}
  /\ fromChunks
  /\ run = 1
  /\ run' = 2
  /\ firstLeaves' = gen[1].value
  /\ firstRoot' = root
  /\ firstThrown' = thrown
  /\ firstSingle' = (gen[1].events = 1)
  /\ gen' = [gen EXCEPT ![1] =
       [IdleGen EXCEPT !.filePath = gen[1].filePath,
                       !.chunkSizeArg = gen[1].chunkSizeArg,
                       !.src = gen[1].src,
                       !.pc = "open",
                       !.chunkSize = gen[1].chunkSize,
                       !.opened = TRUE,
                       !.state = "pending"]]
  /\ mpc' = "idle"
  /\ hashes' = NotAnArray
  /\ hashesBefore' = NotAnArray
  /\ currentLevel' = <<>>
  /\ pairCalls' = 0
  /\ root' = Undefined
  /\ thrown' = ""
  /\ fromChunks' = FALSE
  /\ alt' = alt

\* ------------------------------------------------------------ chunkHasher.js
\* Before the call. `cuts` keeps the position of the source after each 'data'
\* event.
IdleAlt ==
  [ pc |-> "idle",
    chunkSize |-> 0,
    src |-> <<>>,
    pos |-> 0,
    events |-> 0,
    cuts |-> <<>>,
    chunkHashes |-> <<>>,
    state |-> "none",
    value |-> <<>>,
    reason |-> "" ]

\* The chunkSize arguments: positive integers, or none.
AltChunkSizeArgs ==
  {[kind |-> "int", val |-> n] : n \in 1..AltMaxChunk} \cup {[kind |-> "undefined", val |-> 0]}

\* line 10: the default parameter value replaces an undefined argument.
AltEffectiveChunkSize(arg) ==
  IF arg.kind = "undefined" THEN ALT_DEFAULT_CHUNK_SIZE ELSE arg.val

\* Mutant of ChunkHash: `createHash("sha256").digest("hex")`, the update left out.
ChunkHashOfNothing(chunk) == DigestHex(<<>>)

\* line 18
ChunkHash(chunk) == DigestHex(chunk)

\* lines 10-15: the call, no argument validation; the stream is created with
\* highWaterMark = chunkSize.
AltGenerate(c) ==
  /\ alt[c].pc = "idle"
  /\ \E csArg \in AltChunkSizeArgs, content \in SeqUpTo(Byte, AltMaxLen) :
       alt' = [alt EXCEPT ![c] =
         [IdleAlt EXCEPT !.pc = "open",
                         !.chunkSize = AltEffectiveChunkSize(csArg),
                         !.src = content,
                         !.state = "pending"]]
  /\ UNCHANGED <<gen, merkleVars, runVars>>

\* lines 17-20: a 'data' event delivers what one read returned, 1 to highWaterMark
\* bytes; its digest is pushed.
AltData(c) ==
  /\ alt[c].pc = "open"
  /\ \E n \in 1..Min(alt[c].chunkSize, Len(alt[c].src) - alt[c].pos) :
       LET chunk == SubSeq(alt[c].src, alt[c].pos + 1, alt[c].pos + n)
       IN alt' = [alt EXCEPT ![c] =
            [@ EXCEPT !.pos = @ + n,
                      !.events = @ + 1,
                      !.cuts = Append(@, alt[c].pos + n),
                      !.chunkHashes = Append(@, ChunkHash(chunk))]]
  /\ UNCHANGED <<gen, merkleVars, runVars>>

\* lines 22-24: 'end', once every byte is delivered.
AltEnd(c) ==
  /\ alt[c].pc = "open"
  /\ alt[c].pos = Len(alt[c].src)
  /\ alt' = [alt EXCEPT ![c] =
       [@ EXCEPT !.pc = "closed", !.state = "fulfilled", !.value = alt[c].chunkHashes]]
  /\ UNCHANGED <<gen, merkleVars, runVars>>

\* lines 26-28: 'error', on open or after any number of 'data' events.
AltError(c) ==
  /\ alt[c].pc = "open"
  /\ \E e \in StreamErrors :
       alt' = [alt EXCEPT ![c] =
         [@ EXCEPT !.pc = "closed", !.state = "rejected", !.reason = e]]
  /\ UNCHANGED <<gen, merkleVars, runVars>>

\* ------------------------------------------------------------ specification
Init ==
  /\ gen = [c \in Calls |-> IdleGen]
  /\ mpc = "idle"
  /\ hashes = NotAnArray
  /\ hashesBefore = NotAnArray
  /\ currentLevel = <<>>
  /\ pairCalls = 0
  /\ root = Undefined
  /\ thrown = ""
  /\ fromChunks = FALSE
  /\ run = 1
  /\ firstLeaves = <<>>
  /\ firstRoot = Undefined
  /\ firstThrown = ""
  /\ firstSingle = FALSE
  /\ alt = [c \in Calls |-> IdleAlt]

\* One invocation of generateChunkHashes, then buildMerkleRoot.
Next ==
  \/ Generate(1)
  \/ Data(1)
  \/ LoopSlice(1)
  \/ LoopBoundary(1)
  \/ End(1)
  \/ StreamError(1)
  \/ BuildMerkleRoot
  \/ BuildFromChunks
  \/ BuildNextLevelStep
  \/ ReturnRoot
  \/ BuildAgain
  \/ RunAgain

Spec == Init /\ [][Next]_vars

\* Two invocations of generateChunkHashes on independent sources, their callbacks
\* interleaved in any order.
NextPair ==
  \E c \in Calls :
    \/ GenerateConcurrently(c)
    \/ Data(c)
    \/ LoopSlice(c)
    \/ LoopBoundary(c)
    \/ End(c)
    \/ StreamError(c)

SpecPair == Init /\ [][NextPair]_vars

\* Two invocations of chunkHasher.js's generateChunkHashes, each on a file of any
\* content, delivered in any way the stream allows.
NextAlt ==
  \E c \in Calls :
    \/ AltGenerate(c)
    \/ AltData(c)
    \/ AltEnd(c)
    \/ AltError(c)

SpecAlt == Init /\ [][NextAlt]_vars

\* The 'data' handler is synchronous code: once entered, its loop keeps taking
\* steps.
LoopLiveSpec == Spec /\ WF_vars(LoopSlice(1)) /\ WF_vars(LoopBoundary(1))

\* A synchronous function runs to completion: the reduction loop is not abandoned.
LiveSpec == Spec /\ WF_vars(BuildNextLevelStep) /\ WF_vars(ReturnRoot)

\* ------------------------------------------------------------------ claims
\* ceil(len / chunkSize)
CeilDiv(len, chunkSize) == (len + chunkSize - 1) \div chunkSize

\* The source bytes [i*chunkSize, min((i+1)*chunkSize, len)), i counted from 0.
Window(source, chunkSize, i) ==
  SubSeq(source, i * chunkSize + 1, Min((i + 1) * chunkSize, Len(source)))

\* The digest of every window of the source, in source order.
WindowDigests(source, chunkSize) ==
  [i \in 1..CeilDiv(Len(source), chunkSize) |->
     HexString(<<"H(">> \o Window(source, chunkSize, i - 1) \o <<")">>, 64, FALSE)]

\* C1: whatever the 'data' events were, generateChunkHashes resolves with the digest
\* of each window [i*chunkSize, min((i+1)*chunkSize, len)) of the source, in order,
\* the final shorter window hashed as it is.
C1_ByteExactWindows ==
  \A c \in Calls :
    gen[c].state = "fulfilled" =>
      gen[c].value = WindowDigests(gen[c].src, gen[c].chunkSize)

\* A 3-byte source with chunkSize 2 delivered as one event: the event is larger than
\* a chunk and the final window is short.
C1_Witness ==
  /\ gen[1].state = "fulfilled"
  /\ Len(gen[1].src) = 3
  /\ gen[1].chunkSize = 2
  /\ gen[1].events = 1
  /\ Len(gen[1].value) = 2

\* C2: the resolved sequence has ceil(len/chunkSize) digests when len > 0, and none
\* when len = 0.
C2_DigestCount ==
  \A c \in Calls :
    gen[c].state = "fulfilled" =>
      Len(gen[c].value) =
        IF Len(gen[c].src) > 0 THEN CeilDiv(Len(gen[c].src), gen[c].chunkSize) ELSE 0

\* Four bytes in chunks of 3, delivered in more than one event.
C2_Witness ==
  /\ gen[1].state = "fulfilled"
  /\ Len(gen[1].src) = 4
  /\ gen[1].chunkSize = 3
  /\ gen[1].events >= 2
  /\ Len(gen[1].value) = 2

\* H(raw(x) || raw(y)) as a digest in hex, written out.
PairDigest(x, y) == HexString(<<"H(">> \o x.bytes \o y.bytes \o <<")">>, 64, FALSE)

\* The parent level the odd-duplication rule prescribes: consecutive pairs, the
\* last element paired with itself when the count is odd.
ParentLevel(level) ==
  [k \in 1..((Len(level) + 1) \div 2) |->
     PairDigest(level[2 * k - 1],
                IF 2 * k <= Len(level) THEN level[2 * k] ELSE level[2 * k - 1])]

\* C3: for three valid leaves [a, b, c] the root is H(H(a||b) || H(c||c)), computed
\* with three pair hashes; and every step of the reduction pairs the last element of
\* an odd level, and only that one, with itself.
C3_OddDuplication ==
  /\ [](mpc = "returned" /\ Len(hashes.items) = 3 =>
          /\ root = PairDigest(PairDigest(hashes.items[1], hashes.items[2]),
                               PairDigest(hashes.items[3], hashes.items[3]))
          /\ pairCalls = 3)
  /\ [][mpc = "loop" /\ currentLevel' # currentLevel =>
          currentLevel' = ParentLevel(currentLevel)]_vars

\* The root of three distinct leaves has been returned.
C3_Witness ==
  /\ mpc = "returned"
  /\ hashes.items = <<LowerLeaf("aa"), LowerLeaf("bb"), LowerLeaf("cc")>>

\* C4: buildMerkleRoot([d]) returns d unchanged, without calling hashPair.
C4_SingleLeafIdentity ==
  mpc = "returned" /\ Len(hashes.items) = 1 =>
    root = hashes.items[1] /\ pairCalls = 0

\* A one-leaf array has been reduced.
C4_Witness == mpc = "returned" /\ hashes.items = <<LowerLeaf("bb")>> /\ root = LowerLeaf("bb")

\* Not a 64-character hexadecimal string, whatever its case.
NotHexDigest(h) == h.type # "string" \/ ~h.hex \/ h.len # 64

\* C5: a non-array argument (TypeError), an empty array (RangeError) or an element
\* at any index that is not a 64-character hex digest (TypeError) makes
\* buildMerkleRoot throw, with no root and before any pair hash.
C5_ValidationFirst ==
  mpc # "idle" =>
    /\ ~hashes.isArray => mpc = "thrown" /\ thrown = "TypeError"
    /\ hashes.isArray /\ Len(hashes.items) = 0 => mpc = "thrown" /\ thrown = "RangeError"
    /\ (\E i \in 1..Len(hashes.items) : NotHexDigest(hashes.items[i])) =>
         mpc = "thrown" /\ thrown = "TypeError"
    /\ mpc = "thrown" => pairCalls = 0 /\ root = Undefined /\ currentLevel = <<>>

\* An array whose only malformed leaf is its last one has been refused.
C5_Witness ==
  /\ mpc = "thrown"
  /\ Len(hashes.items) = 3
  /\ NotHexDigest(hashes.items[3])
  /\ \A i \in 1..2 : ~NotHexDigest(hashes.items[i]) /\ ~hashes.items[i].upper

\* C6: every step of the reduction maps a level of length m > 1 to one of length
\* ceil(m/2); the loop is left only by returning; once entered it reaches the
\* return; and the value returned is 64 lowercase hex characters.
C6_ReductionTerminates ==
  /\ [][mpc = "loop" /\ currentLevel' # currentLevel =>
          /\ Len(currentLevel) > 1
          /\ Len(currentLevel') = CeilDiv(Len(currentLevel), 2)]_vars
  /\ [][mpc = "loop" => mpc' \in {"loop", "returned"}]_vars
  /\ [](mpc = "returned" =>
          root.type = "string" /\ root.hex /\ ~root.upper /\ root.len = 64)
  /\ [](mpc = "loop" => <>(mpc = "returned" /\ Len(currentLevel) = 1))

\* The three digests of a three-chunk file have been reduced to a root.
C6_Witness ==
  /\ mpc = "returned"
  /\ fromChunks
  /\ Len(hashes.items) = 3
  /\ pairCalls = 3

\* C7: the caller's array is as it was before the call, during and after it, whether
\* the call returns or throws; a second call on the same array gives the same outcome.
C7_InputNotMutated ==
  /\ mpc # "idle" => hashes = hashesBefore
  /\ run = 2 /\ ~fromChunks /\ mpc \in {"returned", "thrown"} =>
       /\ hashes.items = firstLeaves
       /\ root = firstRoot
       /\ thrown = firstThrown

\* The second call on an array of odd length has returned.
C7_Witness ==
  /\ run = 2
  /\ ~fromChunks
  /\ mpc = "returned"
  /\ Len(hashes.items) = 3
  /\ firstRoot # Undefined

\* C8: a second run of generateChunkHashes and buildMerkleRoot over the same bytes
\* with the same chunkSize gives the same leaf sequence and the same root, whatever
\* the 'data' events of each run.
C8_PipelineDeterministic ==
  /\ run = 2 /\ gen[1].state = "fulfilled" => gen[1].value = firstLeaves
  /\ run = 2 /\ fromChunks /\ mpc \in {"returned", "thrown"} =>
       /\ hashes.items = firstLeaves
       /\ root = firstRoot
       /\ thrown = firstThrown

\* Both runs have produced a root of several leaves, the first from a single 'data'
\* event and the second from several.
C8_Witness ==
  /\ run = 2
  /\ fromChunks
  /\ mpc = "returned"
  /\ Len(hashes.items) >= 2
  /\ firstSingle /\ gen[1].events >= 2

\* The root of a level, by the odd-duplication rule.
RECURSIVE RootOf(_)
RootOf(level) == IF Len(level) = 1 THEN level[1] ELSE RootOf(ParentLevel(level))

\* C9 (as claimed): a non-empty array of 64-character hex digests, uppercase letters
\* allowed, is accepted, and its root is the root of the same digests in lowercase.
C9_CaseInsensitiveDigests ==
  /\ mpc \in {"returned", "thrown"}
  /\ hashes.isArray
  /\ Len(hashes.items) > 0
  /\ \A i \in 1..Len(hashes.items) : ~NotHexDigest(hashes.items[i])
  => /\ mpc = "returned"
     /\ root = RootOf([i \in 1..Len(hashes.items) |->
                         [hashes.items[i] EXCEPT !.upper = FALSE]])

\* A string with a character that is not a blank.
NonBlankString(fp) == fp.type = "string" /\ \E i \in 1..Len(fp.text) : fp.text[i] # " "

\* A strictly positive integer.
PositiveInteger(cs) == cs.kind = "int" /\ cs.val >= 1

\* The call failed with `err` before the source was opened, and resolved with nothing.
FailedBeforeOpen(g, err) ==
  /\ g.state = "rejected"
  /\ g.reason = err
  /\ ~g.opened
  /\ g.pos = 0
  /\ g.events = 0
  /\ g.value = <<>>

C11_StreamErrorPropagated ==
  \A c \in Calls :
    /\ gen[c].emitted # "" =>
         /\ gen[c].state = "rejected"
         /\ gen[c].reason = gen[c].emitted
         /\ gen[c].value = <<>>
    /\ gen[c].state = "fulfilled" => gen[c].emitted = "" /\ gen[c].reason = ""
    /\ gen[c].settles <= 1
    /\ gen[c].state \in {"fulfilled", "rejected"} <=> gen[c].settles = 1

\* The stream failed with EIO after two 'data' events, with a digest already
\* accumulated.
C11_Witness ==
  /\ gen[1].emitted = "EIO"
  /\ gen[1].state = "rejected"
  /\ gen[1].events = 2
  /\ Len(gen[1].hashes) >= 1

\* C12: 'end' adds one digest exactly when bytes are pending (bytesInCurrentChunk
\* > 0); a source whose length is a multiple of chunkSize resolves with len/chunkSize
\* digests, none of them the digest of empty content, for every delivery; an empty
\* source resolves with the empty sequence.
C12_EndFlush ==
  /\ [][\A c \in Calls :
          gen[c].state = "pending" /\ gen'[c].state = "fulfilled" =>
            /\ gen[c].bytesInCurrentChunk > 0 =>
                 Len(gen'[c].value) = Len(gen[c].hashes) + 1
            /\ gen[c].bytesInCurrentChunk = 0 => gen'[c].value = gen[c].hashes]_vars
  /\ [](\A c \in Calls :
          gen[c].state = "fulfilled" =>
            /\ \A i \in 1..Len(gen[c].value) : gen[c].value[i].bytes # <<"H(", ")">>
            /\ Len(gen[c].src) % gen[c].chunkSize = 0 =>
                 Len(gen[c].value) * gen[c].chunkSize = Len(gen[c].src)
            /\ gen[c].src = <<>> => gen[c].value = <<>>)

\* Four bytes in chunks of 2, delivered in three events that do not fall on the
\* chunk boundaries, resolved with two digests.
C12_Witness ==
  /\ gen[1].state = "fulfilled"
  /\ Len(gen[1].src) = 4
  /\ gen[1].chunkSize = 2
  /\ gen[1].events = 3
  /\ Len(gen[1].value) = 2

\* C13: with two invocations running concurrently and their callbacks interleaved
\* in any order, a callback of one invocation changes nothing of the other, and each
\* invocation resolves with the digests of the windows of its own source (what it
\* resolves with when run alone) or rejects with the error its own stream emitted.
C13_ConcurrentIndependent ==
  /\ [][\A c \in Calls :
          gen'[c] # gen[c] => \A d \in Calls \ {c} : gen'[d] = gen[d]]_vars
  /\ [](\A c \in Calls :
          /\ gen[c].state = "fulfilled" =>
               gen[c].value = WindowDigests(gen[c].src, gen[c].chunkSize)
          /\ gen[c].state = "rejected" =>
               gen[c].reason = gen[c].emitted /\ gen[c].value = <<>>)

\* Both invocations have resolved, each having received 'data' events between the
\* 'data' events of the other, on different sources.
C13_Witness ==
  /\ \A c \in Calls :
       /\ gen[c].state = "fulfilled"
       /\ gen[c].interleaved
       /\ gen[c].events = 2
  /\ gen[1].src # gen[2].src
  /\ gen[1].value # gen[2].value

\* The valid digests 'a'.repeat(64), 'b'.repeat(64), 'c'.repeat(64).
ValidLeaves == {LowerLeaf("aa"), LowerLeaf("bb"), LowerLeaf("cc")}

\* C14: for a leaf sequence of length >= 2 the root returned is the output of a pair
\* hash, at least one pair hash was computed, and the root is none of the input
\* leaves; for [d, d, d, d] it is H(H(d||d) || H(d||d)).
C14_RootIsNotALeaf ==
  mpc = "returned" /\ Len(hashes.items) >= 2 =>
    /\ pairCalls >= 1
    /\ Head(root.bytes) = "H(" /\ root.bytes[Len(root.bytes)] = ")"
    /\ \A i \in 1..Len(hashes.items) : root # hashes.items[i]
    /\ (Len(hashes.items) = 4 /\ \A i \in 1..4 : hashes.items[i] = hashes.items[1]) =>
         root = PairDigest(PairDigest(hashes.items[1], hashes.items[1]),
                           PairDigest(hashes.items[1], hashes.items[1]))

\* The root of four identical leaves has been returned.
C14_Witness ==
  /\ mpc = "returned"
  /\ hashes.items = <<LowerLeaf("aa"), LowerLeaf("aa"), LowerLeaf("aa"), LowerLeaf("aa")>>
  /\ root # LowerLeaf("aa")

\* C15: the root is a fingerprint of the whole leaf sequence: any valid non-empty
\* leaf sequence other than the one passed in, of the same or of another length,
\* has a root different from the root returned.
C15_RootIsFingerprint ==
  mpc = "returned" =>
    \A other \in SeqUpTo(ValidLeaves, MaxLeaves) \ {<<>>} :
      other # hashes.items => MerkleRootOf(other) # root

\* The sequence with the elements at i and j exchanged.
Swapped(items, i, j) ==
  [k \in 1..Len(items) |-> IF k = i THEN items[j] ELSE IF k = j THEN items[i] ELSE items[k]]

\* C16: the reduction is order-sensitive. Every full pair of a level is hashed
\* left element first, and the root returned for a sequence differs from the root
\* of every other valid sequence of the same length, in particular of the
\* sequence with two distinct leaves exchanged ([b, a] for [a, b]).
C16_OrderSensitive ==
  /\ [][mpc = "loop" /\ currentLevel' # currentLevel =>
          \A k \in 1..(Len(currentLevel) \div 2) :
            /\ currentLevel'[k] = PairDigest(currentLevel[2 * k - 1], currentLevel[2 * k])
            /\ currentLevel[2 * k - 1] # currentLevel[2 * k] =>
                 currentLevel'[k] # PairDigest(currentLevel[2 * k], currentLevel[2 * k - 1])]_vars
  /\ [](mpc = "returned" /\ Len(hashes.items) >= 2 =>
          /\ \A i, j \in 1..Len(hashes.items) :
               hashes.items[i] # hashes.items[j] =>
                 MerkleRootOf(Swapped(hashes.items, i, j)) # root
          /\ \A other \in [1..Len(hashes.items) -> ValidLeaves] :
               other # hashes.items => MerkleRootOf(other) # root)

\* The root of [b, a, c] has been returned.
C16_Witness ==
  /\ mpc = "returned"
  /\ hashes.items = <<LowerLeaf("bb"), LowerLeaf("aa"), LowerLeaf("cc")>>
  /\ root # MerkleRootOf(<<LowerLeaf("aa"), LowerLeaf("bb"), LowerLeaf("cc")>>)

\* C17: the accumulation never exceeds one chunk: in every state of an opened
\* invocation 0 <= bytesInCurrentChunk <= chunkSize, and between callbacks
\* bytesInCurrentChunk < chunkSize, whatever the source length and the sizes of the
\* 'data' events.
C17_AccumulationBounded ==
  \A c \in Calls :
    gen[c].opened =>
      /\ 0 <= gen[c].bytesInCurrentChunk
      /\ gen[c].bytesInCurrentChunk <= gen[c].chunkSize
      /\ gen[c].pc \in {"open", "closed"} => gen[c].bytesInCurrentChunk < gen[c].chunkSize
      /\ Len(gen[c].currentHash.fed) <= gen[c].chunkSize

\* Inside the handler of a second 'data' event the chunk of 3 bytes is just full.
C17_Witness ==
  /\ gen[1].pc = "boundary"
  /\ gen[1].chunkSize = 3
  /\ gen[1].bytesInCurrentChunk = 3
  /\ gen[1].events >= 2

\* The bytes of the source the loop has consumed: those delivered, less the rest
\* of the block the handler is working on.
Consumed(g) ==
  IF g.pc \in {"slice", "boundary"} THEN g.pos - (Len(g.chunk) - g.offset) ELSE g.pos

\* C19: byte conservation: after every 'data' callback
\* hashes.length * chunkSize + bytesInCurrentChunk is the number of bytes
\* delivered so far (inside the handler, of bytes consumed so far), every digest
\* pushed is the digest of the next chunkSize bytes of the source and the running
\* hash holds exactly the bytes after them: no byte dropped, none hashed twice.
C19_ByteConservation ==
  \A c \in Calls :
    gen[c].opened /\ gen[c].pc \in {"open", "slice", "boundary"} =>
      LET g == gen[c]
      IN /\ Len(g.hashes) * g.chunkSize + g.bytesInCurrentChunk = Consumed(g)
         /\ g.pc = "open" =>
              Len(g.hashes) * g.chunkSize + g.bytesInCurrentChunk = g.pos
         /\ \A i \in 1..Len(g.hashes) :
              g.hashes[i].bytes = <<"H(">> \o Window(g.src, g.chunkSize, i - 1) \o <<")">>
         /\ g.currentHash.fed =
              SubSeq(g.src, Len(g.hashes) * g.chunkSize + 1, Consumed(g))

\* One 'data' event of 3 bytes has crossed three boundaries of 1-byte chunks.
C19_Witness ==
  /\ gen[1].pc = "open"
  /\ gen[1].events = 1
  /\ gen[1].chunkSize = 1
  /\ gen[1].pos = 3
  /\ Len(gen[1].hashes) = 3

\* C20: a running hash is finalized at most once and never updated once
\* finalized: no update or digest is ever applied to a finalized hash, the hash in
\* use while the stream is open is not finalized, a digest at a full boundary
\* leaves a fresh hash in its place, and every digest pushed, the 'end' flush
\* included, is taken from a hash that is not finalized and has received at least
\* one byte.
C20_HashFinalizedOnce ==
  /\ [](\A c \in Calls :
          /\ ~gen[c].hashMisuse
          /\ gen[c].pc \in {"open", "slice", "boundary"} => ~gen[c].currentHash.finalized)
  /\ [][\A c \in Calls :
          Len(gen'[c].hashes) = Len(gen[c].hashes) + 1 =>
            /\ ~gen[c].currentHash.finalized
            /\ gen[c].currentHash.fed # <<>>
            /\ gen'[c].hashes[Len(gen'[c].hashes)] = DigestHex(gen[c].currentHash.fed)
            /\ gen[c].pc = "boundary" => gen'[c].currentHash = FreshHash
            /\ gen[c].pc = "open" =>
                 gen'[c].pc = "closed" /\ gen'[c].currentHash.finalized]_vars

\* A boundary digest was taken, then the 'end' flush finalized the last hash.
C20_Witness ==
  /\ gen[1].state = "fulfilled"
  /\ gen[1].currentHash.finalized
  /\ Len(gen[1].value) = 2
  /\ gen[1].chunkSize = 2
  /\ Len(gen[1].src) = 3

\* The bytes the i-th 'data' event of an invocation of chunkHasher.js delivered.
Delivered(a, i) == SubSeq(a.src, (IF i = 1 THEN 0 ELSE a.cuts[i - 1]) + 1, a.cuts[i])

\* The positions at which the byte-exact windows of a source end.
WindowCuts(source, chunkSize) ==
  [i \in 1..CeilDiv(Len(source), chunkSize) |-> Min(i * chunkSize, Len(source))]

\* C18: chunkHasher.js's generateChunkHashes emits exactly one digest per 'data'
\* event, the digest of the bytes that event delivered, and resolves with them.
\* Its output depends on the boundaries of the events: two deliveries of the same
\* bytes with the same chunkSize resolve with the same sequence only when their
\* events end at the same positions, and a delivery resolves with the byte-exact
\* window digests only when its events are the windows.
C18_OneDigestPerEvent ==
  /\ \A c \in Calls :
       LET a == alt[c]
       IN /\ Len(a.chunkHashes) = a.events
          /\ Len(a.cuts) = a.events
          /\ \A i \in 1..a.events :
               a.chunkHashes[i].bytes = <<"H(">> \o Delivered(a, i) \o <<")">>
          /\ a.state = "fulfilled" =>
               /\ a.value = a.chunkHashes
               /\ a.pos = Len(a.src)
               /\ (a.value = WindowDigests(a.src, a.chunkSize)) <=>
                    (a.cuts = WindowCuts(a.src, a.chunkSize))
  /\ \A c, d \in Calls :
       /\ alt[c].state = "fulfilled" /\ alt[d].state = "fulfilled"
       /\ alt[c].src = alt[d].src
       /\ alt[c].chunkSize = alt[d].chunkSize
       => ((alt[c].value = alt[d].value) <=> (alt[c].cuts = alt[d].cuts))

\* The same two bytes with chunkSize 2: one delivery in a single event, the other
\* with the window split across two events; the digest sequences differ, and
\* only the first is the byte-exact one.
C18_Witness ==
  /\ alt[1].state = "fulfilled" /\ alt[2].state = "fulfilled"
  /\ alt[1].src = alt[2].src /\ Len(alt[1].src) = 2
  /\ alt[1].chunkSize = 2 /\ alt[2].chunkSize = 2
  /\ alt[1].events = 1 /\ alt[2].events = 2
  /\ alt[1].value # alt[2].value
  /\ alt[1].value = WindowDigests(alt[1].src, 2)
  /\ alt[2].value # WindowDigests(alt[2].src, 2)

\* C21: the slicing loop of the 'data' handler makes progress and terminates:
\* every iteration finds remaining >= 1, takes a non-empty slice and moves
\* offset strictly forward, never past the end of the delivered block; the loop
\* is left exactly when offset is the block's length, and a handler that has
\* started returns.
C21_LoopTerminates ==
  /\ [][\A c \in Calls :
          gen[c].pc = "slice" /\ gen'[c].pc = "boundary" =>
            /\ gen'[c].remaining >= 1
            /\ gen'[c].remaining = gen[c].chunkSize - gen[c].bytesInCurrentChunk
            /\ Len(gen'[c].slice) >= 1
            /\ gen'[c].offset = gen[c].offset + Len(gen'[c].slice)
            /\ gen'[c].offset > gen[c].offset
            /\ gen'[c].offset <= Len(gen[c].chunk)]_vars
  /\ [][\A c \in Calls :
          gen[c].pc = "boundary" /\ gen'[c].pc # "boundary" =>
            (gen'[c].pc = "open" <=> gen[c].offset = Len(gen[c].chunk))]_vars
  /\ [](\A c \in Calls :
          gen[c].pc \in {"slice", "boundary"} =>
            0 <= gen[c].offset /\ gen[c].offset <= Len(gen[c].chunk))
  /\ (gen[1].pc \in {"slice", "boundary"}) ~> (gen[1].pc = "open")

\* The loop is in its third iteration over one block of 4 bytes, chunkSize 1.
C21_Witness ==
  /\ gen[1].pc = "boundary"
  /\ gen[1].events = 1
  /\ gen[1].chunkSize = 1
  /\ Len(gen[1].chunk) = 4
  /\ gen[1].offset = 3

====
